---- MODULE Spec2Model ----
(***************************************************************************)
(* Model of the i3status-rust dispatcher: main() and run() of src/main.rs  *)
(* together with the UpdateScheduler of src/scheduler.rs and the signal    *)
(* domain of src/signals.rs.  Block internals, configuration parsing and   *)
(* the protocol emitter are external; their outcomes are inputs.           *)
(***************************************************************************)
EXTENDS Integers, Sequences, FiniteSets, TLC

\* ---------------------------------------------------------------- bounds
NumBlocks == 2          \* number of [[block]] entries in the configuration
MaxWait == 2            \* unit steps of time explored within one wait of the select
IntervalSecs == 1       \* the polling interval of a block that has one
NumSignals == 2         \* real-time signals are Other(0) .. Other(NumSignals-1)
NumFilters == 1         \* blocks listen to None or to Other(0) .. Other(NumFilters-1)
MaxTasks == 3           \* tasks in the schedule of a scheduler driven on its own
MaxDue == 2             \* how far after now a pushed instant lies at most
PastDue == 2            \* how far before now a pushed instant in the past lies
ChannelCap == 2         \* ids the update-request channel holds before a send waits
MaxDelivered == 4       \* signals the stream is followed for

\* ------------------------------------------------------- program constants
InitialTtnu == 100      \* let mut ttnu = Duration::from_secs(100)
None == -1              \* Option::None for ids, signals and durations
Exe == "i3status-rs"    \* args[0] of the process
NoInitArg == "--no-init"
SIGUSR1 == 10           \* libc::SIGUSR1
SIGUSR2 == 12           \* libc::SIGUSR2
SIGRTMIN == 34          \* libc::SIGRTMIN()
U8 == 256               \* the values of a u8: step_width, minimum, maximum, brightness
MaxPercent == 100       \* the largest brightness: clamp(0, 100), (0..=100)
U16 == 65536            \* the values of a u16: temp, step, min_temp, max_temp
MinStep == 500          \* config.step.max(500)
LowestTemp == 1000      \* clamp(1_000, ..)
HighestTemp == 10000    \* clamp(1_000, 10_000)
ResetTemp == 6500       \* MouseButton::Right: self.temp = 6500

\* Instant::now().  The code only compares instants with now and subtracts
\* now from later instants, so every stored instant is kept as its distance
\* from the current instant: now is the origin, Tick moves the stored
\* instants towards it, and an instant that has passed stays at the origin.
now == 0

BlockIds == 0 .. (NumBlocks - 1)
OtherSignals == 0 .. (NumSignals - 1)
\* libc::SIGRTMAX(); the real-time range is cut to NumSignals signals
SIGRTMAX == SIGRTMIN + NumSignals
Usr1 == -2              \* Signal::Usr1
Usr2 == -3              \* Signal::Usr2
Signals == {Usr1, Usr2} \cup OtherSignals

VARIABLES
    phase,                   \* position of main(): "start", "running", "error", "panicked"
    no_init,                 \* CliArgs.no_init
    args,                    \* env::args() of the process
    protocol_inits,          \* number of protocol::init calls since the first exec
    error_widgets,           \* error widgets printed by main() in this process
    blocks,                  \* Vec<Option<BlockState>>
    interval,                \* Block::interval() of the instance constructed with each id
    block_rendered,          \* Vec<Vec<I3BarBlock>>: whose view each position shows
    pending_new_blocks,      \* FuturesUnordered of create_block futures (their ids)
    pending_updating_blocks, \* FuturesUnordered of update_block futures
    clicking,                \* the block.click(&event).await the loop is suspended in
    schedule,                \* UpdateScheduler.schedule
    ttnu,                    \* time to next update
    slept,                   \* how much of the sleep(ttnu) of the current select has elapsed
    last_event,              \* the event the process handled last
    since_update,            \* time since the last update completed into each slot
    printed,                 \* the last snapshot handed to protocol::print_blocks
    rx_open,                 \* rx_update_requests has not been dropped
    requests,                \* the ids queued in the update-request channel
    senders,                 \* the tasks and threads that hold a Sender<usize>
    delivered,               \* what signals_stream() was handed and what it yielded
    backlight,               \* the Backlight block and the brightness of its device
    hueshift                 \* the Hueshift block

\* The request channel and the tasks that send on it (SenderSpec), the signal
\* stream (SignalSpec), the backlight block (BacklightSpec) and the hueshift
\* block (HueshiftSpec) are modelled on their own; the dispatcher model takes a request, a signal and the result of
\* a click as inputs of its branches and leaves these variables as they are.
channel == <<rx_open, requests, senders>>
collaborators == <<channel, delivered, backlight, hueshift>>

vars == <<phase, no_init, args, collaborators, protocol_inits, error_widgets, blocks, interval,
          block_rendered, pending_new_blocks, pending_updating_blocks, clicking,
          schedule, ttnu, slept, last_event, since_update,
          printed>>

\* ------------------------------------------------------------ data model
\* blocks[id] = None in the source
NoBlockState == [some |-> FALSE, inner |-> None, signal |-> None, on_click |-> FALSE]

\* Some(BlockState { inner, handlers: BlockHandlers { signal, on_click } })
BlockState(inner, signal, on_click) ==
    [some |-> TRUE, inner |-> inner, signal |-> signal, on_click |-> on_click]

Task(id, update_time) == [id |-> id, update_time |-> update_time]

\* the future returned by update_block(id, block)
UpdateFuture(id, block) == [id |-> id, block |-> block]

NoClick == [id |-> None, block |-> None]

Event(kind, id, res) == [kind |-> kind, id |-> id, res |-> res]

\* ------------------------------------------------------------- scheduler
\* UpdateScheduler::new(blocks_cnt)
RECURSIVE NewSchedule(_, _)
NewSchedule(blocks_cnt, t) ==
    IF blocks_cnt = 0 THEN <<>>
    ELSE Append(NewSchedule(blocks_cnt - 1, t), Task(blocks_cnt - 1, t))

\* a push that first clears the tasks that are due
push_ClearsDue(sched, id, when) ==
    Append(SelectSeq(sched, LAMBDA task : task.update_time > now), Task(id, when))

\* UpdateScheduler::push
push(sched, id, when) == Append(sched, Task(id, when))

\* a pop that looks at the first task only
pop_HeadOnly(sched, id) ==
    IF sched # <<>> /\ Head(sched).id = id THEN Tail(sched) ELSE sched

\* UpdateScheduler::pop: schedule.retain(|task| task.id != id)
RECURSIVE pop(_, _)
pop(sched, id) ==
    IF sched = <<>> THEN <<>>
    ELSE IF Head(sched).id # id THEN <<Head(sched)>> \o pop(Tail(sched), id)
         ELSE pop(Tail(sched), id)

\* UpdateScheduler::time_to_next_update: the loop over the tasks, with its
\* early return of Duration::ZERO and its running minimum
RECURSIVE NextUpdateFrom(_, _, _)
NextUpdateFrom(sched, t, dur) ==
    IF sched = <<>> THEN dur
    ELSE IF Head(sched).update_time <= t THEN 0
    ELSE IF dur # None
         THEN NextUpdateFrom(Tail(sched), t,
                  IF dur <= Head(sched).update_time - t
                  THEN dur ELSE Head(sched).update_time - t)
         ELSE NextUpdateFrom(Tail(sched), t, Head(sched).update_time - t)

\* a computation that looks at the first task only
time_to_next_update_FirstTask(sched, t) ==
    IF sched = <<>> THEN None
    ELSE IF Head(sched).update_time <= t THEN 0
    ELSE Head(sched).update_time - t

\* a computation that keeps the distance of the last task, not the least one
time_to_next_update_LastTask(sched, t) ==
    IF sched = <<>> THEN None
    ELSE IF \E k \in 1 .. Len(sched) : sched[k].update_time <= t THEN 0
    ELSE sched[Len(sched)].update_time - t

time_to_next_update(sched, t) == NextUpdateFrom(sched, t, None)

\* ------------------------------------------------------------ dispatcher
\* the inputs of a successful construction: BlockHandlers.signal,
\* BlockHandlers.on_click and the interval() of the new instance
SignalFilters == {None} \cup (0 .. (NumFilters - 1))
Intervals == {None, IntervalSecs}

Left == 1               \* MouseButton::Left
Buttons == {Left, 2}

\* a snapshot that leaves out the blocks that have rendered nothing yet
Snapshot_OnlyRendered(rendered) ==
    SelectSeq([k \in 1 .. NumBlocks |-> rendered[k - 1]], LAMBDA e : e # None)

\* protocol::print_blocks(&block_rendered, &shared_config): the argument is
\* the whole Vec, entry k of the snapshot being block_rendered[k - 1]
Snapshot(rendered) == [k \in 1 .. NumBlocks |-> rendered[k - 1]]

\* the kinds of request senders: the inotify task of backlight, the D-Bus
\* task of hueshift (wl-gammarelay), the alsactl task and the PulseAudio
\* thread of sound
SenderKinds == {"backlight", "hueshift", "sound_alsa", "sound_pulse"}

\* Backlight::new has not run
NoBacklight ==
    [st |-> "none", step_width |-> 0, minimum |-> 0, maximum |-> 0,
     brightness |-> 0, button |-> "none", requested |-> None]

\* Hueshift::new has not run
NoHueshift ==
    [st |-> "none", temp |-> 0, step |-> 0, min_temp |-> 0, max_temp |-> 0,
     click_temp |-> 0, button |-> "none"]

\* the channel is open and empty, every sender waits for its next event, no
\* signal was delivered
CollaboratorsInit ==
    /\ rx_open = TRUE
    /\ requests = <<>>
    /\ senders = [k \in SenderKinds |-> [st |-> "running", id |-> None]]
    /\ delivered = <<>>
    /\ backlight = NoBacklight
    /\ hueshift = NoHueshift

\* the locals of run() do not exist: before run() and after it has returned
NoLocals ==
    /\ blocks' = [id \in BlockIds |-> NoBlockState]
    /\ interval' = [id \in BlockIds |-> None]
    /\ block_rendered' = [id \in BlockIds |-> None]
    /\ pending_new_blocks' = {}
    /\ pending_updating_blocks' = {}
    /\ clicking' = NoClick
    /\ schedule' = <<>>
    /\ ttnu' = InitialTtnu
    /\ slept' = 0
    /\ since_update' = [id \in BlockIds |-> None]
    /\ printed' = <<>>

Init ==
    /\ phase = "start"
    /\ no_init = FALSE          \* the first exec; restart() adds the flag
    /\ args = <<Exe>>
    /\ protocol_inits = 0
    /\ error_widgets = 0
    /\ blocks = [id \in BlockIds |-> NoBlockState]
    /\ interval = [id \in BlockIds |-> None]
    /\ block_rendered = [id \in BlockIds |-> None]
    /\ pending_new_blocks = {}
    /\ pending_updating_blocks = {}
    /\ clicking = NoClick
    /\ schedule = <<>>
    /\ ttnu = InitialTtnu
    /\ slept = 0
    /\ last_event = Event("exec", None, "none")
    /\ since_update = [id \in BlockIds |-> None]
    /\ printed = <<>>
    /\ CollaboratorsInit

\* main(): run() returned Err (a `?` in run() took the error out of the
\* loop); the error widget is printed and the process waits for SIGUSR2
RunError ==
    /\ phase' = "error"
    /\ error_widgets' = error_widgets + 1
    /\ NoLocals

\* a panic unwinds main()
Panic ==
    /\ phase' = "panicked"
    /\ UNCHANGED error_widgets
    /\ NoLocals

\* a loop that never waits
NextTtnu_Zero(sched, t, old) == 0

\* a loop that never sets its timer again
NextTtnu_KeepsOld(sched, t, old) == old

\* the timer of the next select: if let Some(time) =
\* scheduler.time_to_next_update() { ttnu = time }
NextTtnu(sched, t, old) ==
    IF time_to_next_update(sched, t) # None
    THEN time_to_next_update(sched, t) ELSE old

\* a loop that blanks the entry of a block while the block is out of its slot
Continue_BlanksInFlight(bs, rendered, pending, sched) ==
    /\ blocks' = bs
    /\ block_rendered' = [i \in BlockIds |->
                             IF bs[i].some /\ bs[i].inner = None
                             THEN None ELSE rendered[i]]
    /\ pending_updating_blocks' = pending
    /\ schedule' = sched
    /\ clicking' = NoClick
    /\ ttnu' = NextTtnu(sched, now, ttnu)
    /\ slept' = 0
    /\ UNCHANGED <<phase, error_widgets>>

\* the loop goes on to its next iteration with these values of its locals
Continue(bs, rendered, pending, sched) ==
    /\ blocks' = bs
    /\ block_rendered' = rendered
    /\ pending_updating_blocks' = pending
    /\ schedule' = sched
    /\ clicking' = NoClick
    /\ ttnu' = NextTtnu(sched, now, ttnu)
    /\ slept' = 0
    /\ UNCHANGED <<phase, error_widgets>>

\* the select of the loop is waiting
Selecting == phase = "running" /\ clicking = NoClick

\* run() up to the loop: protocol init, configuration, one empty slot and
\* one create_block future per configured block, the scheduler
RunStart(config_ok) ==
    /\ phase = "start"
    /\ protocol_inits' = IF no_init THEN protocol_inits ELSE protocol_inits + 1
    /\ IF config_ok
       THEN /\ phase' = "running"
            /\ pending_new_blocks' = BlockIds
            /\ schedule' = NewSchedule(NumBlocks, now)
            /\ last_event' = Event("start", None, "ok")
            /\ UNCHANGED <<error_widgets, blocks, interval, since_update, printed,
                           block_rendered, pending_updating_blocks, clicking,
                           ttnu, slept>>
       ELSE /\ RunError
            /\ last_event' = Event("start", None, "err")
    /\ UNCHANGED <<no_init, args, collaborators>>

\* block.in_block(blocks_names[id])? on a construction error
NewBlockFailed(id) == RunError

\* a construction that installs the instance in its slot and starts nothing
NewBlock_InstallsOwned(id, res, signal, on_click, dur) ==
    /\ Selecting
    /\ id \in pending_new_blocks
    /\ last_event' = Event("new_block", id, res)
    /\ CASE res = "ok" ->
              /\ pending_new_blocks' = pending_new_blocks \ {id}
              /\ interval' = [interval EXCEPT ![id] = dur]
              /\ UNCHANGED since_update
              /\ printed' = Snapshot([block_rendered EXCEPT ![id] = id])
              /\ Continue([blocks EXCEPT ![id] = BlockState(id, signal, on_click)],
                          [block_rendered EXCEPT ![id] = id],
                          pending_updating_blocks, schedule)
         [] res = "skip" ->
              /\ pending_new_blocks' = pending_new_blocks \ {id}
              /\ UNCHANGED <<interval, since_update, printed>>
              /\ Continue(blocks, block_rendered, pending_updating_blocks, schedule)
         [] res = "err" -> NewBlockFailed(id)
    /\ UNCHANGED <<no_init, args, collaborators, protocol_inits>>

\* Some((id, block)) = pending_new_blocks.next()
NewBlock(id, res, signal, on_click, dur) ==
    /\ Selecting
    /\ id \in pending_new_blocks
    /\ last_event' = Event("new_block", id, res)
    /\ CASE res = "ok" ->
              /\ pending_new_blocks' = pending_new_blocks \ {id}
              /\ interval' = [interval EXCEPT ![id] = dur]
              /\ UNCHANGED since_update
              /\ printed' = Snapshot([block_rendered EXCEPT ![id] = id])
              /\ Continue([blocks EXCEPT ![id] = BlockState(None, signal, on_click)],
                          [block_rendered EXCEPT ![id] = id],
                          pending_updating_blocks \cup {UpdateFuture(id, id)},
                          schedule)
         [] res = "skip" ->
              /\ pending_new_blocks' = pending_new_blocks \ {id}
              /\ UNCHANGED <<interval, since_update, printed>>
              /\ Continue(blocks, block_rendered, pending_updating_blocks, schedule)
         [] res = "err" -> NewBlockFailed(id)
    /\ UNCHANGED <<no_init, args, collaborators, protocol_inits>>

\* a completion that pushes without the pop before it
Reschedule_NoPop(sched, id, dur, t) ==
    IF dur # None THEN push(sched, id, t + dur) ELSE sched

\* a completion that makes the block due at once
Reschedule_DueNow(sched, id, dur, t) ==
    IF dur # None THEN push(pop(sched, id), id, t) ELSE pop(sched, id)

\* scheduler.pop(id); if let Some(dur) = block.interval() { scheduler.push(..) }
Reschedule(sched, id, dur, t) ==
    IF dur # None THEN push(pop(sched, id), id, t + dur) ELSE pop(sched, id)

\* Some((id, block, result)) = pending_updating_blocks.next()
UpdatedBlock(f, res) ==
    /\ Selecting
    /\ f \in pending_updating_blocks
    /\ IF res = "err"
       THEN /\ RunError
            /\ last_event' = Event("updated", f.id, "err")
       ELSE IF blocks[f.id].some
       THEN /\ Continue([blocks EXCEPT ![f.id].inner = f.block],
                        [block_rendered EXCEPT ![f.id] = f.block],
                        pending_updating_blocks \ {f},
                        Reschedule(schedule, f.id, interval[f.block], now))
            /\ since_update' = [since_update EXCEPT ![f.id] = 0]
            /\ printed' = Snapshot([block_rendered EXCEPT ![f.id] = f.block])
            /\ UNCHANGED <<interval, pending_new_blocks>>
            /\ last_event' = Event("updated", f.id, "ok")
       ELSE \* blocks[id].as_mut().unwrap() on None
            /\ Panic
            /\ last_event' = Event("updated", f.id, "panic")
    /\ UNCHANGED <<no_init, args, collaborators, protocol_inits>>

\* a take that does not look whether the instance is in its slot
Taken_AnySome(bs, ids) == {i \in ids : bs[i].some}

\* block.inner.take() followed by pending_updating_blocks.push(update_block(tag, block))
\* for every slot of ids whose inner is Some; tag[i] is the id handed to
\* update_block for slot i
Taken(bs, ids) == {i \in ids : bs[i].some /\ bs[i].inner # None}

\* a dispatch that leaves the instance in its slot
TakeBlocks_KeepsInner(bs, ids) == bs

TakeBlocks(bs, ids) ==
    [i \in BlockIds |-> IF i \in Taken(bs, ids) THEN [bs[i] EXCEPT !.inner = None]
                        ELSE bs[i]]

StartUpdates(bs, pending, ids, tag) ==
    pending \cup {UpdateFuture(tag[i], bs[i].inner) : i \in Taken(bs, ids)}

OwnId == [i \in BlockIds |-> i]

\* Some(id) = rx_update_requests.recv()
UpdateRequest(id) ==
    /\ Selecting
    /\ Continue(TakeBlocks(blocks, {id}), block_rendered,
                StartUpdates(blocks, pending_updating_blocks, {id}, OwnId), schedule)
    /\ last_event' = Event("request", id,
                           IF Taken(blocks, {id}) # {} THEN "started" ELSE "dropped")
    /\ UNCHANGED <<no_init, args, collaborators, protocol_inits, interval, since_update, printed,
                   pending_new_blocks>>

\* Some(event) = events_stream.next(), up to the point where the loop either
\* finishes the iteration or suspends in block.click(&event).await
ClickEvent(id, button, spawn_ok) ==
    /\ Selecting
    /\ IF blocks[id].some /\ blocks[id].on_click /\ button = Left
       THEN \* spawn_child_async("sh", &["-c", on_click])
            IF spawn_ok
            THEN /\ Continue(blocks, block_rendered, pending_updating_blocks, schedule)
                 /\ UNCHANGED <<interval, since_update, printed, pending_new_blocks>>
                 /\ last_event' = Event("click", id, "command")
            ELSE /\ RunError
                 /\ last_event' = Event("click", id, "spawn_err")
       ELSE IF blocks[id].some /\ blocks[id].inner # None
            THEN /\ blocks' = [blocks EXCEPT ![id].inner = None]
                 /\ clicking' = [id |-> id, block |-> blocks[id].inner]
                 /\ last_event' = Event("click", id, "handler")
                 /\ UNCHANGED <<phase, error_widgets, interval, since_update, printed,
                                block_rendered, pending_new_blocks,
                                pending_updating_blocks, schedule, ttnu, slept>>
            ELSE /\ Continue(blocks, block_rendered, pending_updating_blocks, schedule)
                 /\ UNCHANGED <<interval, since_update, printed, pending_new_blocks>>
                 /\ last_event' = Event("click", id, "dropped")
    /\ UNCHANGED <<no_init, args, collaborators, protocol_inits>>

\* a loop that starts the update whatever Ok value the handler returned
ClickDone_IgnoresResult(res) ==
    /\ phase = "running"
    /\ clicking # NoClick
    /\ last_event' = Event("click_done", clicking.id, res)
    /\ IF res = "err" THEN RunError
       ELSE /\ Continue(blocks, block_rendered,
                        pending_updating_blocks \cup
                            {UpdateFuture(clicking.id, clicking.block)},
                        schedule)
            /\ UNCHANGED <<interval, since_update, printed, pending_new_blocks>>
    /\ UNCHANGED <<no_init, args, collaborators, protocol_inits>>

\* block.click(&event).await returns: Ok(true), Ok(false) or Err
ClickDone(res) ==
    /\ phase = "running"
    /\ clicking # NoClick
    /\ last_event' = Event("click_done", clicking.id, res)
    /\ CASE res = "true" ->
              /\ Continue(blocks, block_rendered,
                          pending_updating_blocks \cup
                              {UpdateFuture(clicking.id, clicking.block)},
                          schedule)
              /\ UNCHANGED <<interval, since_update, printed, pending_new_blocks>>
         [] res = "false" ->
              \* the taken block goes out of scope
              /\ Continue(blocks, block_rendered, pending_updating_blocks, schedule)
              /\ UNCHANGED <<interval, since_update, printed, pending_new_blocks>>
         [] res = "err" -> RunError
    /\ UNCHANGED <<no_init, args, collaborators, protocol_inits>>

\* a retain whose closure returns false for every task
TimerScan_KeepsNothing(sched, bs, pending, t) ==
    LET due == {sched[k].id : k \in {n \in 1 .. Len(sched) : sched[n].update_time <= t}}
    IN  [schedule |-> <<>>, blocks |-> TakeBlocks(bs, due),
         pending |-> StartUpdates(bs, pending, due, OwnId)]

\* scheduler.schedule.retain(|task| ...) of the timer branch: walks the tasks
\* in order, takes the block of every due task and drops the task
RECURSIVE TimerScan(_, _, _, _)
TimerScan(sched, bs, pending, t) ==
    IF sched = <<>> THEN [schedule |-> <<>>, blocks |-> bs, pending |-> pending]
    ELSE LET task == Head(sched) IN
         IF task.update_time <= t
         THEN TimerScan(Tail(sched), TakeBlocks(bs, {task.id}),
                        StartUpdates(bs, pending, {task.id}, OwnId), t)
         ELSE LET rest == TimerScan(Tail(sched), bs, pending, t) IN
              [rest EXCEPT !.schedule = <<task>> \o rest.schedule]

\* _ = tokio::time::sleep(ttnu)
Timer ==
    /\ Selecting
    /\ slept >= ttnu
    /\ LET scan == TimerScan(schedule, blocks, pending_updating_blocks, now) IN
       /\ Continue(scan.blocks, block_rendered, scan.pending, scan.schedule)
       /\ last_event' = Event("timer", None,
                              IF scan.blocks # blocks THEN "started" ELSE "none")
    /\ UNCHANGED <<no_init, args, collaborators, protocol_inits, interval, since_update, printed,
                   pending_new_blocks>>

\* blocks.iter_mut().filter_map(|b| b.as_mut()).enumerate(): the index that
\* enumerate() yields for slot i is the number of Some slots before it
EnumerateIndex(bs) ==
    [i \in BlockIds |-> Cardinality({j \in BlockIds : j < i /\ bs[j].some})]

\* CliArgs::parse(): the no_init flag of an argument list
ParseNoInit(arg) == \E k \in 1 .. Len(arg) : arg[k] = NoInitArg

\* a restart that adds the flag whatever the arguments are
RestartArgs_AlwaysAdds(arg) == Append(arg, NoInitArg)

\* the argument list that restart() hands to execvp
RestartArgs(arg) ==
    IF \E k \in 1 .. Len(arg) : arg[k] = NoInitArg THEN arg
    ELSE Append(arg, NoInitArg)

\* restart(): execvp of the same binary with "--no-init" added
Restart ==
    /\ phase' = "start"
    /\ args' = RestartArgs(args)
    /\ UNCHANGED collaborators
    /\ no_init' = ParseNoInit(RestartArgs(args))
    /\ error_widgets' = 0
    /\ NoLocals
    /\ UNCHANGED protocol_inits

\* a signal handler that does not look at handlers.signal
SignalTargets_AnyFilter(bs, sig) == {i \in BlockIds : bs[i].some}

\* the slots a signal asks to update: every Some slot for Usr1, the Some
\* slots whose handlers.signal is Some(sig) for Other(sig)
SignalTargets(bs, sig) ==
    {i \in BlockIds : bs[i].some /\ (sig = Usr1 \/ bs[i].signal = sig)}

\* Some(sig) = signals_stream.next(), Signal::Usr1
SignalUsr1 ==
    /\ Selecting
    /\ Continue(TakeBlocks(blocks, SignalTargets(blocks, Usr1)), block_rendered,
                StartUpdates(blocks, pending_updating_blocks,
                             SignalTargets(blocks, Usr1), EnumerateIndex(blocks)),
                schedule)
    /\ last_event' = Event("signal", Usr1,
                           IF Taken(blocks, SignalTargets(blocks, Usr1)) # {}
                           THEN "started" ELSE "dropped")
    /\ UNCHANGED <<no_init, args, collaborators, protocol_inits, interval, since_update, printed,
                   pending_new_blocks>>

\* Signal::Usr2
SignalUsr2 ==
    /\ Selecting
    /\ Restart
    /\ last_event' = Event("signal", Usr2, "restart")

\* Signal::Other(sig)
SignalOther(sig) ==
    /\ Selecting
    /\ Continue(TakeBlocks(blocks, SignalTargets(blocks, sig)), block_rendered,
                StartUpdates(blocks, pending_updating_blocks,
                             SignalTargets(blocks, sig), EnumerateIndex(blocks)),
                schedule)
    /\ last_event' = Event("signal", sig,
                           IF Taken(blocks, SignalTargets(blocks, sig)) # {}
                           THEN "started" ELSE "dropped")
    /\ UNCHANGED <<no_init, args, collaborators, protocol_inits, interval, since_update, printed,
                   pending_new_blocks>>

\* a wait that is also registered for SIGUSR1
MainWaitSignals_WithUsr1 == {Usr1, Usr2}

\* the signals of Signals::new(&[SIGUSR2]) in main()
MainWaitSignals == {Usr2}

\* main() after a failed run(): .forever().next() returns for a registered
\* signal only; any other signal is not delivered to the iterator
MainWait(sig) ==
    /\ phase = "error"
    /\ IF sig \in MainWaitSignals
       THEN /\ Restart
            /\ last_event' = Event("main_wait", sig, "restart")
       ELSE /\ last_event' = Event("main_wait", sig, "ignored")
            /\ UNCHANGED <<phase, no_init, args, collaborators, protocol_inits, error_widgets, blocks,
                           interval, since_update, printed, block_rendered,
                           pending_new_blocks, pending_updating_blocks, clicking,
                           schedule, ttnu, slept>>

\* the instants of the schedule after d units of time
RECURSIVE Age(_, _)
Age(sched, d) ==
    IF sched = <<>> THEN <<>>
    ELSE <<Task(Head(sched).id,
                IF Head(sched).update_time - d > now
                THEN Head(sched).update_time - d ELSE now)>> \o Age(Tail(sched), d)

\* the time since the last completion after d more units; the model keeps it
\* up to the longest interval a block can have
Elapse(since, d) ==
    [i \in BlockIds |->
        IF since[i] = None THEN None
        ELSE IF since[i] + d < IntervalSecs THEN since[i] + d ELSE IntervalSecs]

\* time passes in unit steps, or by the length of the initial sleep at once
TickSteps == {1, InitialTtnu}

\* d units of time pass while the loop waits in its select or in a click handler
Tick(d) ==
    /\ phase = "running"
    /\ (d = 1 /\ Selecting) => slept < MaxWait
    /\ schedule' = Age(schedule, d)
    /\ since_update' = Elapse(since_update, d)
    /\ slept' = IF Selecting
                THEN (IF slept + d < ttnu THEN slept + d ELSE ttnu)
                ELSE slept
    /\ UNCHANGED <<phase, no_init, args, collaborators, protocol_inits, error_widgets, blocks,
                   interval, block_rendered, pending_new_blocks,
                   pending_updating_blocks, clicking, ttnu, last_event,
                   printed>>

Next ==
    \/ \E config_ok \in BOOLEAN : RunStart(config_ok)
    \/ \E id \in BlockIds, res \in {"ok", "skip", "err"}, signal \in SignalFilters,
          on_click \in BOOLEAN, dur \in Intervals :
           /\ res # "ok" => (signal = None /\ ~on_click /\ dur = None)
           /\ NewBlock(id, res, signal, on_click, dur)
    \/ \E f \in pending_updating_blocks, res \in {"ok", "err"} : UpdatedBlock(f, res)
    \/ \E id \in BlockIds : UpdateRequest(id)
    \/ \E id \in BlockIds, button \in Buttons, spawn_ok \in BOOLEAN :
           /\ ~(blocks[id].some /\ blocks[id].on_click /\ button = Left) => spawn_ok
           /\ ClickEvent(id, button, spawn_ok)
    \/ \E res \in {"true", "false", "err"} : ClickDone(res)
    \/ Timer
    \/ SignalUsr1
    \/ SignalUsr2
    \/ \E sig \in OtherSignals : SignalOther(sig)
    \/ \E sig \in Signals : MainWait(sig)
    \/ \E d \in TickSteps : Tick(d)

Spec == Init /\ [][Next]_vars

\* The loop with every update and every click handler terminating without
\* error, a configuration that loads, constructions that succeed or skip and
\* commands that spawn: the steps of a run that no `?` ends.
LiveNext ==
    \/ RunStart(TRUE)
    \/ \E id \in BlockIds, res \in {"ok", "skip"}, signal \in SignalFilters,
          on_click \in BOOLEAN, dur \in Intervals :
           /\ res # "ok" => (signal = None /\ ~on_click /\ dur = None)
           /\ NewBlock(id, res, signal, on_click, dur)
    \/ \E f \in pending_updating_blocks : UpdatedBlock(f, "ok")
    \/ \E id \in BlockIds : UpdateRequest(id)
    \/ \E id \in BlockIds, button \in Buttons : ClickEvent(id, button, TRUE)
    \/ \E res \in {"true", "false"} : ClickDone(res)
    \/ Timer
    \/ SignalUsr1
    \/ \E sig \in OtherSignals : SignalOther(sig)
    \/ \E d \in TickSteps : Tick(d)

\* the futures update_block can return
UpdateFutures == [id : BlockIds, block : BlockIds]

\* tokio::select! polls its branches in random order, so a branch that is
\* ready again and again is taken; an update that was started completes, a
\* click handler returns, and time passes
Fairness ==
    /\ SF_vars(Timer)
    /\ \A f \in UpdateFutures : SF_vars(UpdatedBlock(f, "ok"))
    /\ WF_vars(\E res \in {"true", "false"} : ClickDone(res))
    /\ SF_vars(\E d \in TickSteps : Tick(d))

LiveSpec == Init /\ [][LiveNext]_vars /\ Fairness

TypeOK ==
    /\ phase \in {"start", "running", "error", "panicked"}
    /\ blocks \in [BlockIds -> [some : BOOLEAN, inner : {None} \cup BlockIds,
                                signal : SignalFilters, on_click : BOOLEAN]]
    /\ pending_updating_blocks \subseteq [id : BlockIds, block : BlockIds]
    /\ pending_new_blocks \subseteq BlockIds

\* ------------------------------------------------- the scheduler on its own
\* An UpdateScheduler driven by arbitrary calls of its methods; the locals of
\* run() other than the scheduler stay as they are before run().  last_event
\* is the last call: its id argument and its second argument or its result.
SchedulerOnly ==
    UNCHANGED <<phase, no_init, args, collaborators, protocol_inits, error_widgets, blocks, interval,
                block_rendered, pending_new_blocks, pending_updating_blocks,
                clicking, ttnu, slept, since_update, printed>>

\* the instants handed to push: one in the past, now, and the future ones
PushTimes == {now - PastDue} \cup (now .. (now + MaxDue))

\* let scheduler = UpdateScheduler::new(blocks_cnt)
SchedInit ==
    /\ phase = "start"
    /\ no_init = FALSE
    /\ args = <<Exe>>
    /\ protocol_inits = 0
    /\ error_widgets = 0
    /\ blocks = [id \in BlockIds |-> NoBlockState]
    /\ interval = [id \in BlockIds |-> None]
    /\ block_rendered = [id \in BlockIds |-> None]
    /\ pending_new_blocks = {}
    /\ pending_updating_blocks = {}
    /\ clicking = NoClick
    /\ ttnu = InitialTtnu
    /\ slept = 0
    /\ since_update = [id \in BlockIds |-> None]
    /\ printed = <<>>
    /\ CollaboratorsInit
    /\ \E blocks_cnt \in 0 .. NumBlocks :
          /\ schedule = NewSchedule(blocks_cnt, now)
          /\ last_event = Event("new", None, blocks_cnt)

\* scheduler.push(id, when)
SchedPush(id, when) ==
    /\ Len(schedule) < MaxTasks
    /\ schedule' = push(schedule, id, when)
    /\ last_event' = Event("push", id, when)
    /\ SchedulerOnly

\* scheduler.pop(id); the event records how many tasks the call removed
SchedPop(id) ==
    /\ schedule' = pop(schedule, id)
    /\ last_event' = Event("pop", id, Len(schedule) - Len(pop(schedule, id)))
    /\ SchedulerOnly

\* scheduler.time_to_next_update(); the event records what it returned
SchedTimeToNextUpdate ==
    /\ last_event' = Event("time_to_next_update", None,
                           time_to_next_update(schedule, now))
    /\ UNCHANGED schedule
    /\ SchedulerOnly

\* one unit of time passes between two calls
SchedAdvance ==
    /\ schedule' = Age(schedule, 1)
    /\ last_event' = Event("advance", None, 1)
    /\ SchedulerOnly

SchedNext ==
    \/ \E id \in BlockIds, when \in PushTimes : SchedPush(id, when)
    \/ \E id \in BlockIds : SchedPop(id)
    \/ SchedTimeToNextUpdate
    \/ SchedAdvance

SchedSpec == SchedInit /\ [][SchedNext]_vars

\* ------------------------------------------- the update-request channel
\* The senders of update requests and the receiving end of the channel; the
\* locals of run() other than the receiver stay as they are before run().
SenderOnly ==
    UNCHANGED <<phase, no_init, args, protocol_inits, error_widgets, blocks,
                interval, block_rendered, pending_new_blocks,
                pending_updating_blocks, clicking, schedule, ttnu, slept,
                since_update, printed, delivered, backlight, hueshift>>

\* what a sender does with the Err of a send on a closed channel: backlight
\* and hueshift leave their loop (`if ..send(id).await.is_err() { break; }`),
\* both sound senders unwrap it (`..blocking_send(id).unwrap()`)
OnClosed(kind) ==
    IF kind \in {"backlight", "hueshift"} THEN "stopped" ELSE "panicked"

\* the state of a sender: what it does and the id it is sending
Sender(st, id) == [st |-> st, id |-> id]

\* Sender::send(id) / blocking_send(id) on the channel as it is: Err on a
\* closed channel, the id queued if there is room, else the send waits
Send(kind, id) ==
    IF ~rx_open
    THEN /\ senders' = [senders EXCEPT ![kind] = Sender(OnClosed(kind), None)]
         /\ last_event' = Event("send", id, OnClosed(kind))
         /\ UNCHANGED <<rx_open, requests>>
    ELSE IF Len(requests) < ChannelCap
    THEN /\ requests' = Append(requests, id)
         /\ senders' = [senders EXCEPT ![kind] = Sender("running", None)]
         /\ last_event' = Event("send", id, "queued")
         /\ UNCHANGED rx_open
    ELSE /\ senders' = [senders EXCEPT ![kind] = Sender("waiting", id)]
         /\ last_event' = Event("send", id, "waiting")
         /\ UNCHANGED <<rx_open, requests>>

\* a sender has an event and sends the id of its block
SenderSend(kind, id) ==
    /\ senders[kind].st = "running"
    /\ Send(kind, id)
    /\ SenderOnly

\* a send that waited for room is woken: by a recv or by the drop of the
\* receiver
SenderWoken(kind) ==
    /\ senders[kind].st = "waiting"
    /\ ~rx_open \/ Len(requests) < ChannelCap
    /\ Send(kind, senders[kind].id)
    /\ SenderOnly

\* Some(id) = rx_update_requests.recv()
ReceiverRecv ==
    /\ rx_open
    /\ requests # <<>>
    /\ requests' = Tail(requests)
    /\ last_event' = Event("recv", Head(requests), "none")
    /\ UNCHANGED <<rx_open, senders>>
    /\ SenderOnly

\* run() returns and drops rx_update_requests with what is queued in it
ReceiverDropped ==
    /\ rx_open
    /\ rx_open' = FALSE
    /\ requests' = <<>>
    /\ last_event' = Event("rx_dropped", None, "none")
    /\ UNCHANGED senders
    /\ SenderOnly

SenderNext ==
    \/ \E kind \in SenderKinds, id \in BlockIds : SenderSend(kind, id)
    \/ \E kind \in SenderKinds : SenderWoken(kind)
    \/ ReceiverRecv
    \/ ReceiverDropped

SenderSpec == Init /\ [][SenderNext]_vars

\* ------------------------------------------------- the signal stream alone
\* signals_stream() of src/signals.rs: the raw signals signal-hook was
\* registered for and the value the stream yields for each.

\* run_state: what main() and run() hold, left alone by the signal stream and
\* by the backlight block
run_state == <<phase, no_init, args, protocol_inits, error_widgets, blocks,
               interval, block_rendered, pending_new_blocks,
               pending_updating_blocks, clicking, schedule, ttnu, slept,
               last_event, since_update, printed>>

\* Signals::new((sigmin..sigmax).chain([SIGUSR1, SIGUSR2]))
Registered == (SIGRTMIN .. (SIGRTMAX - 1)) \cup {SIGUSR1, SIGUSR2}

\* x => Signal::Other(x) in place of Other(x - sigmin)
SignalOf_NoOffset(signal) ==
    IF signal = SIGUSR1 THEN Usr1
    ELSE IF signal = SIGUSR2 THEN Usr2
    ELSE signal

\* the closure of signals.map: SIGUSR1 => Usr1, SIGUSR2 => Usr2,
\* x => Other(x - sigmin)
SignalOf(signal) ==
    IF signal = SIGUSR1 THEN Usr1
    ELSE IF signal = SIGUSR2 THEN Usr2
    ELSE signal - SIGRTMIN

\* the stream yields the value of a raw signal the process received
Deliver(signal) ==
    /\ Len(delivered) < MaxDelivered
    /\ delivered' = Append(delivered, [raw |-> signal, signal |-> SignalOf(signal)])
    /\ UNCHANGED <<run_state, channel, backlight, hueshift>>

SignalNext == \E signal \in Registered : Deliver(signal)

SignalSpec == Init /\ [][SignalNext]_vars

\* ---------------------------------------------- the backlight block alone
\* Backlight of src/blocks/backlight.rs: its construction and its wheel
\* clicks, with the brightness of the device as the device file reports it.

\* the values of step_width, minimum and maximum a configuration is drawn
\* from, and the percentages the device is seen at: brightness() fails for
\* any value outside (0..=100)
ConfigBytes == {0, 5, 100, 200, U8 - 1}
Percents == {0, 5, 50, MaxPercent}

\* Ord::min and Ord::max
Min(a, b) == IF a < b THEN a ELSE b
Max(a, b) == IF a > b THEN a ELSE b

\* Ord::clamp(self, min, max)
clamp(value, min, max) ==
    IF value < min THEN min ELSE IF value > max THEN max ELSE value

\* u8::saturating_sub
saturating_sub(a, b) == IF a < b THEN 0 ELSE a - b

\* the argument of BacklightDevice::set_brightness as the device takes it:
\* let value = value.clamp(0, 100)
set_brightness(value) == clamp(value, 0, MaxPercent)

\* Backlight::new(id, config, ..): maximum and minimum are clamped, the step
\* is taken as configured
BacklightNew(step_width, minimum, maximum, brightness) ==
    /\ backlight.st = "none"
    /\ backlight' =
          [st |-> "ready",
           step_width |-> step_width,
           minimum |-> clamp(minimum, 0, clamp(maximum, 0, MaxPercent)),
           maximum |-> clamp(maximum, 0, MaxPercent),
           brightness |-> brightness,
           button |-> "none",
           requested |-> None]
    /\ UNCHANGED <<run_state, channel, delivered, hueshift>>

\* the brightness file changes: the device applied a request, or another
\* program set the brightness
BacklightDeviceChange(brightness) ==
    /\ backlight.st = "ready"
    /\ backlight' = [backlight EXCEPT !.brightness = brightness,
                                      !.button = "none",
                                      !.requested = None]
    /\ UNCHANGED <<run_state, channel, delivered, hueshift>>

\* click(), MouseButton::WheelUp: brightness + step_width is a sum of two
\* u8: past 255 it panics where overflow checks are compiled in and wraps
\* where they are not
BacklightWheelUp ==
    /\ backlight.st = "ready"
    /\ LET sum == backlight.brightness + backlight.step_width IN
       \/ /\ sum < U8
          /\ backlight' =
                [backlight EXCEPT
                   !.button = "wheel_up",
                   !.requested = set_brightness(
                       clamp(sum, backlight.minimum, backlight.maximum))]
       \/ /\ sum >= U8
          /\ backlight' = [backlight EXCEPT !.st = "panicked",
                                            !.button = "wheel_up",
                                            !.requested = None]
       \/ /\ sum >= U8
          /\ backlight' =
                [backlight EXCEPT
                   !.button = "wheel_up",
                   !.requested = set_brightness(
                       clamp(sum % U8, backlight.minimum, backlight.maximum))]
    /\ UNCHANGED <<run_state, channel, delivered, hueshift>>

\* click(), MouseButton::WheelDown
BacklightWheelDown ==
    /\ backlight.st = "ready"
    /\ backlight' =
          [backlight EXCEPT
             !.button = "wheel_down",
             !.requested = set_brightness(
                 clamp(saturating_sub(backlight.brightness, backlight.step_width),
                       backlight.minimum, backlight.maximum))]
    /\ UNCHANGED <<run_state, channel, delivered, hueshift>>

BacklightNext ==
    \/ \E step_width, minimum, maximum \in ConfigBytes, brightness \in Percents :
          BacklightNew(step_width, minimum, maximum, brightness)
    \/ \E brightness \in Percents : BacklightDeviceChange(brightness)
    \/ BacklightWheelUp
    \/ BacklightWheelDown

BacklightSpec == Init /\ [][BacklightNext]_vars

\* ----------------------------------------------- the hueshift block alone
\* Hueshift of src/blocks/hueshift.rs: its construction, its update and its
\* clicks; the driver calls succeed.

\* the values of max_temp, min_temp and step a configuration is drawn from,
\* and the temperatures current_temp, click_temp and the driver give
ConfigTemps == {0, MinStep, LowestTemp, ResetTemp, HighestTemp, 20000, U16 - 1}
ConfigSteps == {0, 100, MinStep, LowestTemp, 60000}
Temps == {LowestTemp, ResetTemp, HighestTemp}

\* Hueshift::new(id, config, ..): Ord::clamp(self, min, max) asserts
\* min <= max, and the upper bound of min_temp is config.max_temp as
\* configured
HueshiftNew(current_temp, step, max_temp, min_temp, click_temp) ==
    /\ hueshift.st = "none"
    /\ IF LowestTemp > max_temp
       THEN hueshift' = [NoHueshift EXCEPT !.st = "panicked"]
       ELSE hueshift' =
              [st |-> "ready",
               temp |-> current_temp,
               step |-> Max(step, MinStep),
               max_temp |-> clamp(max_temp, LowestTemp, HighestTemp),
               min_temp |-> clamp(min_temp, LowestTemp, max_temp),
               click_temp |-> click_temp,
               button |-> "none"]
    /\ UNCHANGED <<run_state, channel, delivered, backlight>>

\* update(): the driver reports a temperature (wl-gammarelay), or none
HueshiftUpdate(current_temp) ==
    /\ hueshift.st = "ready"
    /\ hueshift' = [hueshift EXCEPT
                       !.temp = IF current_temp # None THEN current_temp ELSE @,
                       !.button = "none"]
    /\ UNCHANGED <<run_state, channel, delivered, backlight>>

\* click(), MouseButton::Left and MouseButton::Right
HueshiftClick(button) ==
    /\ hueshift.st = "ready"
    /\ hueshift' = [hueshift EXCEPT
                       !.temp = IF button = "left" THEN hueshift.click_temp
                                ELSE ResetTemp,
                       !.button = button]
    /\ UNCHANGED <<run_state, channel, delivered, backlight>>

\* click(), MouseButton::WheelUp if self.temp < self.max_temp: temp + step
\* is a sum of two u16: past 65535 it panics where overflow checks are
\* compiled in and wraps where they are not
HueshiftWheelUp ==
    /\ hueshift.st = "ready"
    /\ LET sum == hueshift.temp + hueshift.step IN
       IF hueshift.temp < hueshift.max_temp
       THEN \/ /\ sum < U16
               /\ hueshift' = [hueshift EXCEPT
                                  !.temp = Min(sum, hueshift.max_temp),
                                  !.button = "wheel_up"]
            \/ /\ sum >= U16
               /\ hueshift' = [hueshift EXCEPT !.st = "panicked",
                                               !.button = "wheel_up"]
            \/ /\ sum >= U16
               /\ hueshift' = [hueshift EXCEPT
                                  !.temp = Min(sum % U16, hueshift.max_temp),
                                  !.button = "wheel_up"]
       ELSE hueshift' = [hueshift EXCEPT !.button = "wheel_up"]
    /\ UNCHANGED <<run_state, channel, delivered, backlight>>

\* click(), MouseButton::WheelDown if self.temp > self.min_temp
HueshiftWheelDown ==
    /\ hueshift.st = "ready"
    /\ IF hueshift.temp > hueshift.min_temp
       THEN hueshift' =
              [hueshift EXCEPT
                 !.temp = Max(saturating_sub(hueshift.temp, hueshift.step),
                              hueshift.min_temp),
                 !.button = "wheel_down"]
       ELSE hueshift' = [hueshift EXCEPT !.button = "wheel_down"]
    /\ UNCHANGED <<run_state, channel, delivered, backlight>>

HueshiftNext ==
    \/ \E current_temp \in Temps, step \in ConfigSteps, max_temp \in ConfigTemps,
          min_temp \in ConfigTemps, click_temp \in Temps :
           HueshiftNew(current_temp, step, max_temp, min_temp, click_temp)
    \/ \E current_temp \in Temps \cup {None} : HueshiftUpdate(current_temp)
    \/ \E button \in {"left", "right"} : HueshiftClick(button)
    \/ HueshiftWheelUp
    \/ HueshiftWheelDown

HueshiftSpec == Init /\ [][HueshiftNext]_vars

\* ---------------------------------------------------------------- claims
Owned(i) == blocks[i].some /\ blocks[i].inner # None
InFlight(i) == blocks[i].some /\ blocks[i].inner = None

\* the update and click operations that carry id i
PendingOps(i) ==
    {f \in pending_updating_blocks : f.id = i} \cup
    (IF clicking.id = i THEN {clicking} ELSE {})

\* the tasks of the schedule for id, in order
RECURSIVE TasksFor(_, _)
TasksFor(sched, id) ==
    IF sched = <<>> THEN <<>>
    ELSE IF Head(sched).id = id THEN <<Head(sched)>> \o TasksFor(Tail(sched), id)
         ELSE TasksFor(Tail(sched), id)

\* C1: in every reachable state and for every id i, slot i is not Owned
\* while an operation tagged i is pending, and at most one operation tagged
\* i is pending
C1_OwnedExcludesPending ==
    \A i \in BlockIds :
        /\ Owned(i) => PendingOps(i) = {}
        /\ Cardinality(PendingOps(i)) <= 1

\* C2: the instance constructed with id i is dispatched only under id i,
\* reinstalled only into slot i and rendered only into position i
C2_IdsNeverReassigned ==
    /\ \A f \in pending_updating_blocks : f.id = f.block
    /\ \A i \in BlockIds : blocks[i].inner \in {None, i}
    /\ \A i \in BlockIds : block_rendered[i] \in {None, i}

\* C3: handling Usr1 starts exactly one update for every Owned block, under
\* the id of its slot, and none for any other slot
C3_RefreshAllOwnIds ==
    [][SignalUsr1 =>
        /\ \A i \in BlockIds :
              IF Owned(i)
              THEN /\ UpdateFuture(i, blocks[i].inner) \in pending_updating_blocks'
                   /\ blocks'[i] = [blocks[i] EXCEPT !.inner = None]
              ELSE blocks'[i] = blocks[i]
        /\ Cardinality(pending_updating_blocks' \ pending_updating_blocks)
               = Cardinality({i \in BlockIds : Owned(i)})]_vars

\* C4: handling Other(k) starts an update for an Owned block iff the signal
\* filter of its slot is k; every other slot, the schedule and the rendered
\* output are unchanged
C4_NumberedSignalFilter ==
    [][\A sig \in OtherSignals : SignalOther(sig) =>
        /\ \A i \in BlockIds :
              IF Owned(i) /\ blocks[i].signal = sig
              THEN /\ \E f \in pending_updating_blocks' \ pending_updating_blocks :
                          f.block = blocks[i].inner
                   /\ blocks'[i] = [blocks[i] EXCEPT !.inner = None]
              ELSE /\ blocks'[i] = blocks[i]
                   /\ Owned(i) =>
                        ~\E f \in pending_updating_blocks' : f.block = blocks[i].inner
        /\ Cardinality(pending_updating_blocks' \ pending_updating_blocks)
               = Cardinality({i \in BlockIds : Owned(i) /\ blocks[i].signal = sig})
        /\ pending_updating_blocks \subseteq pending_updating_blocks'
        /\ schedule' = schedule
        /\ block_rendered' = block_rendered]_vars

\* a numbered signal has started an update for a listening block while a
\* block with another filter stays Owned
C4_Witness ==
    /\ last_event.kind = "signal"
    /\ last_event.id \in OtherSignals
    /\ last_event.res = "started"
    /\ \E i, j \in BlockIds :
          /\ InFlight(i) /\ blocks[i].signal = last_event.id
          /\ Owned(j) /\ blocks[j].signal # last_event.id

\* C5: after a click handler has completed for id and the loop goes on, the
\* instance is back in its slot or its follow-up update is pending (the loop
\* that does not go on is the case of C6)
C5_ClickReinstalls ==
    (last_event.kind = "click_done" /\ phase = "running") =>
        \/ Owned(last_event.id)
        \/ \E f \in pending_updating_blocks : f.id = last_event.id

\* C6: an error of an update or of a click handler leaves the loop running
\* and the failing block in (or on its way back to) its slot
C6_ErrorsDoNotEndLoop ==
    (last_event.kind \in {"updated", "click_done"} /\ last_event.res = "err") =>
        /\ phase = "running"
        /\ Owned(last_event.id)

\* C7: after the construction of a block has failed, the loop is still
\* running for the other blocks
C7_FailureRemovesOnlyBlock ==
    (last_event.kind = "new_block" /\ last_event.res = "err") => phase = "running"

\* C8: once run() has ended with an error, one error widget has been
\* printed, nothing is dispatched, and the wait ends only with Usr2, by a
\* restart
C8_ErrorWaitsForReload ==
    [][phase = "error" =>
        /\ error_widgets = 1
        /\ pending_new_blocks = {} /\ pending_updating_blocks = {}
        /\ clicking = NoClick
        /\ \/ /\ phase' = "error"
              /\ UNCHANGED <<error_widgets, blocks, block_rendered, schedule,
                             pending_new_blocks, pending_updating_blocks, clicking>>
           \/ /\ phase' = "start"
              /\ no_init'
              /\ last_event' = Event("main_wait", Usr2, "restart")]_vars

\* the process has restarted from the error wait
C8_Witness ==
    /\ last_event = Event("main_wait", Usr2, "restart")
    /\ phase = "start"
    /\ no_init

\* no instance is in two places
UniqueInstances ==
    /\ \A f, g \in pending_updating_blocks : f.block = g.block => f = g
    /\ \A f \in pending_updating_blocks, i \in BlockIds : blocks[i].inner # f.block
    /\ \A i \in BlockIds : blocks[i].inner # None => clicking.block # blocks[i].inner
    /\ \A f \in pending_updating_blocks : clicking.block # f.block

\* C9: a request for an Owned block empties the slot and starts one update
\* under that id; a request for any other slot changes nothing; no instance
\* has two updates pending
C9_Coalescing ==
    /\ []UniqueInstances
    /\ [][\A id \in BlockIds : UpdateRequest(id) =>
            IF Owned(id)
            THEN /\ InFlight(id)'
                 /\ pending_updating_blocks' = pending_updating_blocks \cup
                        {UpdateFuture(id, blocks[id].inner)}
                 /\ UpdateFuture(id, blocks[id].inner) \notin pending_updating_blocks
            ELSE /\ blocks' = blocks
                 /\ pending_updating_blocks' = pending_updating_blocks]_vars

\* a request has been dropped for a block whose update is in flight
C9_Witness ==
    /\ last_event.kind = "request"
    /\ last_event.res = "dropped"
    /\ InFlight(last_event.id)
    /\ \E f \in pending_updating_blocks : f.id = last_event.id

\* C10: the completion of an update of id at time now reinstalls the block
\* and leaves exactly the task (id, now + interval) for id if the block has
\* an interval, and no task for id otherwise
C10_CompletionReschedules ==
    [][\A f \in pending_updating_blocks, res \in {"ok", "err"} :
          UpdatedBlock(f, res) =>
            /\ blocks'[f.id].some
            /\ blocks'[f.id].inner = f.block
            /\ TasksFor(schedule', f.id) =
                   IF interval[f.block] # None
                   THEN <<Task(f.id, now + interval[f.block])>>
                   ELSE <<>>]_vars

\* the interval() of the instance that slot i holds
IntervalOf(i) == interval[blocks[i].inner]

\* C11: the timer branch starts a block that has an interval d only when at
\* least d has passed since the completion of its last update
C11_TimerNotBeforeInterval ==
    [][Timer =>
        \A i \in BlockIds :
            (Owned(i) /\ InFlight(i)' /\ IntervalOf(i) # None) =>
                /\ since_update[i] # None
                /\ since_update[i] >= IntervalOf(i)]_vars

\* the timer has started a block and has left Owned a block whose last
\* update completed less than its interval ago
C11_Witness ==
    /\ last_event = Event("timer", None, "started")
    /\ \E j \in BlockIds :
          /\ Owned(j) /\ IntervalOf(j) # None
          /\ since_update[j] # None /\ since_update[j] < IntervalOf(j)

\* while the select waits, what is left of the wait is not longer than what
\* is left of the interval of any Owned block
WaitWithinInterval ==
    Selecting =>
        \A i \in BlockIds :
            (Owned(i) /\ IntervalOf(i) # None) =>
                /\ since_update[i] # None
                /\ ttnu - slept <= IntervalOf(i) - since_update[i]

\* C12: a timer wake at or after t0 + d starts the update of a block that is
\* still Owned, and the wait of a select never reaches beyond t0 + d
C12_TimerStartsAtInterval ==
    /\ []WaitWithinInterval
    /\ [][Timer =>
            \A i \in BlockIds :
                (Owned(i) /\ IntervalOf(i) # None /\ since_update[i] # None
                          /\ since_update[i] >= IntervalOf(i)) =>
                    /\ InFlight(i)'
                    /\ UpdateFuture(i, blocks[i].inner) \in
                           pending_updating_blocks' \ pending_updating_blocks]_vars

\* the timer has started the update of a block whose interval has passed
C12_Witness ==
    /\ last_event = Event("timer", None, "started")
    /\ \E f \in pending_updating_blocks :
          /\ InFlight(f.id)
          /\ interval[f.block] # None
          /\ since_update[f.id] # None /\ since_update[f.id] >= interval[f.block]

\* the timer branch leaves a block without interval in its slot
TimerSkipsNoInterval ==
    [][Timer =>
        \A i \in BlockIds :
            (Owned(i) /\ IntervalOf(i) = None) => blocks'[i] = blocks[i]]_vars

\* C13: the schedule never holds a task for the id of a block that has no
\* interval, and the timer branch never starts such a block
C13_NoIntervalNeverScheduled ==
    /\ [](\A i \in BlockIds :
            (blocks[i].some /\ interval[i] = None) => TasksFor(schedule, i) = <<>>)
    /\ TimerSkipsNoInterval

\* C14: in every reachable state of the dispatcher the schedule holds at
\* most one task for each block id
C14_OneTaskPerId ==
    \A i \in BlockIds : Len(TasksFor(schedule, i)) <= 1

\* a completion has left the task (id, now + interval) as the only task of
\* its id while another id has its task as well
C14_Witness ==
    /\ last_event.kind = "updated" /\ last_event.res = "ok"
    /\ TasksFor(schedule, last_event.id) =
           <<Task(last_event.id, now + IntervalSecs)>>
    /\ \E j \in BlockIds \ {last_event.id} : Len(TasksFor(schedule, j)) = 1

\* the instants of the tasks that are not in the future, and of all tasks
DueTasks == {k \in 1 .. Len(schedule) : schedule[k].update_time <= now}
Distances == {schedule[k].update_time - now : k \in 1 .. Len(schedule)}

\* C15: for the scheduler on its own, after push(id, due) the schedule holds
\* exactly one task for id, with due as its instant, so that no earlier
\* deadline of id takes part in time_to_next_update()
C15_PushReplaces ==
    last_event.kind = "push" =>
        /\ TasksFor(schedule, last_event.id) =
               <<Task(last_event.id, last_event.res)>>
        /\ time_to_next_update(schedule, now) =
               time_to_next_update(
                   push(pop(schedule, last_event.id), last_event.id, last_event.res),
                   now)

\* C16: what time_to_next_update() returns is never negative, and it is zero
\* iff some task of the schedule has an instant that is not in the future
C16_ZeroIffDue ==
    last_event.kind = "time_to_next_update" =>
        /\ last_event.res # None => last_event.res >= 0
        /\ last_event.res = 0 <=> DueTasks # {}

\* time_to_next_update() has returned zero for a schedule whose first task
\* is in the future and whose due task comes later
C16_Witness ==
    /\ last_event = Event("time_to_next_update", None, 0)
    /\ Len(schedule) >= 2
    /\ schedule[1].update_time > now
    /\ DueTasks # {}

\* C17: time_to_next_update() returns None exactly for the empty schedule,
\* and for a schedule whose tasks are all in the future it returns the least
\* distance of a task from now, whatever the order of the tasks
C17_NoneIffEmptyElseMin ==
    last_event.kind = "time_to_next_update" =>
        /\ last_event.res = None <=> schedule = <<>>
        /\ (schedule # <<>> /\ DueTasks = {}) =>
               /\ last_event.res \in Distances
               /\ \A x \in Distances : last_event.res <= x

\* time_to_next_update() has returned the distance of a task that is
\* neither the first nor the last of the schedule
C17_Witness ==
    /\ last_event.kind = "time_to_next_update"
    /\ Len(schedule) = 3
    /\ DueTasks = {}
    /\ last_event.res = schedule[2].update_time - now
    /\ schedule[1].update_time - now > last_event.res
    /\ schedule[3].update_time - now > last_event.res

\* the tasks of the schedule whose id is not id, in order
OtherTasks(sched, id) == SelectSeq(sched, LAMBDA task : task.id # id)

\* C18: pop(id) leaves no task of id and every task of the other ids, so
\* that time_to_next_update() after it is that of the other ids' tasks
C18_PopRemovesAll ==
    [][\A id \in BlockIds : SchedPop(id) =>
          /\ TasksFor(schedule', id) = <<>>
          /\ schedule' = OtherTasks(schedule, id)
          /\ time_to_next_update(schedule', now) =
                 time_to_next_update(OtherTasks(schedule, id), now)]_vars

\* pop has removed two tasks of one id and has left a task of another id
C18_Witness ==
    /\ last_event.kind = "pop"
    /\ last_event.res >= 2
    /\ schedule # <<>>

\* the ids that have a task whose instant has passed
DueIds == {schedule[k].id : k \in DueTasks}

\* C19: the timer branch removes exactly the tasks whose instant has passed,
\* and starts one update, under the id of the task, for exactly the removed
\* tasks whose block is Owned; every other slot is left as it is
C19_TimerScan ==
    [][Timer =>
        /\ schedule' = SelectSeq(schedule, LAMBDA task : task.update_time > now)
        /\ \A i \in BlockIds :
              IF i \in DueIds /\ Owned(i)
              THEN /\ InFlight(i)'
                   /\ UpdateFuture(i, blocks[i].inner) \in
                          pending_updating_blocks' \ pending_updating_blocks
              ELSE blocks'[i] = blocks[i]
        /\ pending_updating_blocks \subseteq pending_updating_blocks'
        /\ Cardinality(pending_updating_blocks' \ pending_updating_blocks)
               = Cardinality({i \in DueIds : Owned(i)})]_vars

\* the timer branch has started an update for a due task, which it has
\* removed, and has kept a task that is still in the future
C19_Witness ==
    /\ last_event = Event("timer", None, "started")
    /\ \E k \in 1 .. Len(schedule) : schedule[k].update_time > now
    /\ \E f \in pending_updating_blocks : TasksFor(schedule, f.id) = <<>>

\* a left click on a slot whose handlers.on_click is Some
OverrideClick(id, spawn_ok) ==
    /\ blocks[id].some /\ blocks[id].on_click
    /\ ClickEvent(id, Left, spawn_ok)

\* the command is launched, the loop is not suspended in a click handler,
\* no update is started and every slot is as it was
OverrideClickFrame(id) ==
    /\ last_event' = Event("click", id, "command")
    /\ clicking' = NoClick
    /\ pending_updating_blocks' = pending_updating_blocks
    /\ blocks' = blocks
    /\ schedule' = schedule

\* the frame of an override click whose command could be spawned
OverrideClickLaunched ==
    [][\A id \in BlockIds : OverrideClick(id, TRUE) => OverrideClickFrame(id)]_vars

\* C20: a left click on a slot that has an override command launches the
\* command, does not invoke the click handler of the block, starts no update
\* and leaves the slot Owned or InFlight as it was
C20_OverrideClick ==
    [][\A id \in BlockIds, spawn_ok \in BOOLEAN :
          OverrideClick(id, spawn_ok) => OverrideClickFrame(id)]_vars

\* a click to which the override does not apply, on an Owned slot
HandlerClick(id, button) ==
    /\ Owned(id)
    /\ ~(blocks[id].on_click /\ button = Left)
    /\ ClickEvent(id, button, TRUE)

\* C21: a click on an Owned slot to which the override does not apply
\* invokes the click handler of the block once, with the block taken out of
\* its slot, and when the handler returns an update of that block is started
\* iff it returned true
C21_ClickHandlerThenUpdate ==
    /\ [][\A id \in BlockIds, button \in Buttons :
            HandlerClick(id, button) =>
                /\ clicking' = [id |-> id, block |-> blocks[id].inner]
                /\ InFlight(id)'
                /\ pending_updating_blocks' = pending_updating_blocks]_vars
    /\ [][\A res \in {"true", "false", "err"} :
            ClickDone(res) =>
                /\ clicking' = NoClick
                /\ pending_updating_blocks' \ pending_updating_blocks \subseteq
                       {UpdateFuture(clicking.id, clicking.block)}
                /\ (UpdateFuture(clicking.id, clicking.block) \in
                        pending_updating_blocks' \ pending_updating_blocks)
                       <=> res = "true"]_vars

\* the click handler of a block that has an override command has returned
\* true for a click of another button, and the update of the block is pending
C21_Witness ==
    /\ last_event.kind = "click_done" /\ last_event.res = "true"
    /\ blocks[last_event.id].on_click
    /\ InFlight(last_event.id)
    /\ \E f \in pending_updating_blocks : f.id = last_event.id

\* the updates of the instance constructed with id i that are pending
UpdatesOf(pending, i) == {f \in pending : f.block = i}

\* C22: the step in which the construction of a block succeeds installs the
\* slot, renders the view of the block and starts exactly one update of it,
\* under its id, leaving the slot InFlight; no other step starts an update
\* of an instance whose slot is not yet installed
C22_FirstUpdateOnConstruction ==
    /\ [][\A id \in BlockIds, signal \in SignalFilters, on_click \in BOOLEAN,
             dur \in Intervals :
            NewBlock(id, "ok", signal, on_click, dur) =>
                /\ ~blocks[id].some
                /\ blocks'[id] = BlockState(None, signal, on_click)
                /\ block_rendered'[id] = id
                /\ pending_updating_blocks' =
                       pending_updating_blocks \cup {UpdateFuture(id, id)}
                /\ UpdatesOf(pending_updating_blocks, id) = {}]_vars
    /\ [][\A i \in BlockIds :
            (~blocks[i].some /\ UpdatesOf(pending_updating_blocks', i) # {}) =>
                last_event' = Event("new_block", i, "ok")]_vars

\* a block has been constructed while another block was Owned: its slot is
\* InFlight, its view is rendered and its first update is the one pending
C22_Witness ==
    /\ last_event.kind = "new_block" /\ last_event.res = "ok"
    /\ InFlight(last_event.id)
    /\ block_rendered[last_event.id] = last_event.id
    /\ UpdatesOf(pending_updating_blocks, last_event.id) =
           {UpdateFuture(last_event.id, last_event.id)}
    /\ \E j \in BlockIds \ {last_event.id} : Owned(j)

\* C23: every snapshot handed to the protocol emitter has one entry for
\* every configured block, entry k being the one of the k-th block of the
\* configuration, whether that block is skipped, not yet constructed,
\* InFlight or Owned
C23_SnapshotShape ==
    printed # <<>> =>
        /\ Len(printed) = NumBlocks
        /\ \A id \in BlockIds : printed[id + 1] = block_rendered[id]

\* a snapshot has been printed with an empty entry for a block that is not
\* installed and with the view of a block that is InFlight
C23_Witness ==
    /\ Len(printed) = NumBlocks
    /\ \E id \in BlockIds : ~blocks[id].some /\ printed[id + 1] = None
    /\ \E id \in BlockIds : InFlight(id) /\ printed[id + 1] # None

\* C24: during a run the entry of a position of the rendered output changes
\* only in the step in which a construction or an update completes for that
\* position; the request, click, timer and signal branches change no entry,
\* and the entry of a slot that stays InFlight stays as it is
C24_RenderedFrame ==
    [][(phase = "running" /\ phase' = "running") =>
        /\ \A i \in BlockIds :
              block_rendered'[i] # block_rendered[i] =>
                  \/ last_event' = Event("new_block", i, "ok")
                  \/ last_event' = Event("updated", i, "ok")
        /\ \A i \in BlockIds :
              (InFlight(i) /\ InFlight(i)') => block_rendered'[i] = block_rendered[i]
        /\ last_event'.kind \in {"request", "click", "click_done", "timer", "signal"}
              => block_rendered' = block_rendered]_vars

\* a request, a click, the timer or a signal has taken a block out of its
\* slot, and the entry of the block still shows its last view
C24_Witness ==
    /\ last_event.kind \in {"request", "click", "timer", "signal"}
    /\ last_event.res \in {"started", "handler"}
    /\ \E i \in BlockIds : InFlight(i) /\ block_rendered[i] # None
    /\ printed = Snapshot(block_rendered)

\* what has been printed last is the rendered output as it is now
Flushed ==
    \/ printed = Snapshot(block_rendered)
    \/ printed = <<>> /\ block_rendered = [i \in BlockIds |-> None]

\* the wait that the task list asks for: zero with a task that is due, else
\* the least distance of a task
WaitOfTasks ==
    IF DueTasks # {} THEN 0
    ELSE CHOOSE m \in Distances : \A x \in Distances : m <= x

DispatchesFor(j) ==
    /\ ENABLED UpdateRequest(j)
    /\ ENABLED ClickEvent(j, Left, TRUE)
    /\ ENABLED SignalUsr1
    /\ slept >= ttnu => ENABLED Timer
    /\ \A f \in pending_updating_blocks : ENABLED UpdatedBlock(f, "ok")
    /\ \A id \in pending_new_blocks : ENABLED NewBlock(id, "skip", None, FALSE, None)

\* while updates are in flight and no click handler runs, the loop dispatches
UpdatesDoNotSuspend ==
    (phase = "running" /\ clicking = NoClick) => \A j \in BlockIds : DispatchesFor(j)

\* C26: while an update or a click handler of one block is in progress, the
\* loop still dispatches the events of every other block
C26_SlowBlockDelaysOnlyItself ==
    phase = "running" =>
        \A i \in BlockIds :
            (PendingOps(i) # {}) => \A j \in BlockIds \ {i} : DispatchesFor(j)

\* how many times the flag occurs in the argument list
RECURSIVE FlagCount(_)
FlagCount(arg) ==
    IF arg = <<>> THEN 0
    ELSE (IF Head(arg) = NoInitArg THEN 1 ELSE 0) + FlagCount(Tail(arg))

\* C27: over any number of restarts the protocol is initialised at most
\* once; the argument list of a restarted process is the original one with
\* the flag added exactly once, and a process whose arguments hold the flag
\* does not initialise the protocol
C27_InitAtMostOnce ==
    /\ []( /\ protocol_inits <= 1
           /\ FlagCount(args) <= 1
           /\ no_init <=> FlagCount(args) = 1
           /\ args \in {<<Exe>>, <<Exe, NoInitArg>>})
    /\ [][(phase = "start" /\ phase' # "start" /\ no_init)
            => protocol_inits' = protocol_inits]_vars
    /\ [][phase' = "start" => (no_init' /\ FlagCount(args') = 1)]_vars

\* a restarted process runs its loop with the flag once in its arguments
\* and the protocol has been initialised once, by the first process
C27_Witness ==
    /\ phase = "running"
    /\ args = <<Exe, NoInitArg>>
    /\ protocol_inits = 1
    /\ last_event.kind \notin {"start", "exec"}

\* the senders that break out of their loop are never left panicked
BreakingSendersAbsorb ==
    \A kind \in {"backlight", "hueshift"} : senders[kind].st # "panicked"

\* C28: no sender of update requests panics when the receiving end of the
\* channel is gone
C28_ClosedChannelAbsorbed ==
    \A kind \in SenderKinds : senders[kind].st # "panicked"

\* the raw real-time signals the stream was registered for
RealTime == SIGRTMIN .. (SIGRTMAX - 1)

\* C29: every raw signal the stream delivered was mapped to one value:
\* SIGUSR1 to Usr1, SIGUSR2 to Usr2 and any other raw signal s to
\* Other(s - SIGRTMIN) with 0 <= s - SIGRTMIN < SIGRTMAX - SIGRTMIN; two
\* deliveries of the same raw signal yielded the same value and two
\* different raw real-time signals yielded different numbers
C29_SignalMapping ==
    /\ \A k \in 1 .. Len(delivered) :
          LET d == delivered[k] IN
          /\ d.signal \in Signals
          /\ d.raw = SIGUSR1 => d.signal = Usr1
          /\ d.raw = SIGUSR2 => d.signal = Usr2
          /\ d.raw \notin {SIGUSR1, SIGUSR2} =>
                /\ d.signal = d.raw - SIGRTMIN
                /\ 0 <= d.signal
                /\ d.signal < SIGRTMAX - SIGRTMIN
    /\ \A k, l \in 1 .. Len(delivered) :
          /\ delivered[k].raw = delivered[l].raw =>
                delivered[k].signal = delivered[l].signal
          /\ (/\ delivered[k].raw \in RealTime
              /\ delivered[l].raw \in RealTime
              /\ delivered[k].raw # delivered[l].raw) =>
                delivered[k].signal # delivered[l].signal

\* SIGUSR1, SIGUSR2 and two different real-time signals were delivered
C29_Witness ==
    /\ \E k \in 1 .. Len(delivered) : delivered[k].raw = SIGUSR1
    /\ \E k \in 1 .. Len(delivered) : delivered[k].raw = SIGUSR2
    /\ \E k, l \in 1 .. Len(delivered) :
          /\ delivered[k].raw \in RealTime
          /\ delivered[l].raw \in RealTime
          /\ delivered[k].raw # delivered[l].raw

\* the value a wheel click requested lies between minimum and maximum
RequestedWithinBounds ==
    (backlight.st = "ready" /\ backlight.button # "none") =>
        /\ backlight.minimum <= backlight.requested
        /\ backlight.requested <= backlight.maximum

\* a wheel click whose sum fits a u8 requests the sum, clamped to minimum
\* and maximum
WheelUpWithoutOverflow ==
    (/\ backlight.st = "ready"
     /\ backlight.button = "wheel_up"
     /\ backlight.brightness + backlight.step_width < U8) =>
        backlight.requested =
            clamp(backlight.brightness + backlight.step_width,
                  backlight.minimum, backlight.maximum)

\* a wheel click at a brightness that lies between minimum and maximum
\* requests what the integers give: the sum capped at maximum, the
\* difference raised to minimum, and never panics
ScrollBoundsInRange ==
    /\ (backlight.button # "none" /\ backlight.minimum <= backlight.brightness
           /\ backlight.brightness <= backlight.maximum) =>
          backlight.st # "panicked"
    /\ (/\ backlight.st = "ready"
        /\ backlight.minimum <= backlight.brightness
        /\ backlight.brightness <= backlight.maximum) =>
          /\ backlight.button = "wheel_up" =>
                backlight.requested =
                    Min(backlight.brightness + backlight.step_width,
                        backlight.maximum)
          /\ backlight.button = "wheel_down" =>
                backlight.requested =
                    Max(backlight.brightness - backlight.step_width,
                        backlight.minimum)

\* C30: a constructed backlight block has minimum <= maximum <= 100; a
\* wheel-up requests min(current + step_width, maximum) and a wheel-down
\* max(current - step_width, minimum), the sums and differences being those
\* of the integers: no overflow of the 8-bit arithmetic panics or changes
\* the value requested
C30_ScrollBounds ==
    /\ backlight.st # "panicked"
    /\ backlight.st = "ready" =>
          /\ backlight.minimum <= backlight.maximum
          /\ backlight.maximum <= MaxPercent
          /\ backlight.button = "wheel_up" =>
                backlight.requested =
                    Min(backlight.brightness + backlight.step_width,
                        backlight.maximum)
          /\ backlight.button = "wheel_down" =>
                backlight.requested =
                    Max(backlight.brightness - backlight.step_width,
                        backlight.minimum)

\* no click handler has just returned false and no signal has just started
\* an update
NoDropNoSignalStart ==
    /\ last_event # Event("click_done", last_event.id, "false")
    /\ ~(last_event.kind = "signal" /\ last_event.res = "started")

\* a run in which no handler returns false and no signal starts an update
\* updates every block that stays constructed with a polling interval again
\* and again
LiveWithoutDropAndSignals ==
    \A i \in BlockIds :
        ([]NoDropNoSignalStart /\
         <>[](phase = "running" /\ blocks[i].some /\ interval[i] # None))
            => []<>(last_event = Event("updated", i, "ok"))

\* C31: in a run whose updates and click handlers terminate without error,
\* a block that stays constructed with a polling interval has an update of
\* its slot completed again and again
C31_Liveness ==
    \A i \in BlockIds :
        (<>[](phase = "running" /\ blocks[i].some /\ interval[i] # None))
            => []<>(last_event = Event("updated", i, "ok"))

\* the update f is still in flight after the step, or the step consumed its
\* completion
KeptOrCompleted(f) ==
    \/ /\ f \in pending_updating_blocks'
       /\ InFlight(f.block)'
    \/ /\ f \notin pending_updating_blocks'
       /\ last_event' = Event("updated", f.id, "ok")
       /\ UpdatedBlock(f, "ok")

\* while every operation carries the id of its block, a step of the running
\* loop keeps every update in flight or consumes its completion
OwnIdUpdatesKept ==
    [][(phase = "running" /\ phase' = "running"
          /\ C2_IdsNeverReassigned /\ C2_IdsNeverReassigned') =>
        \A f \in pending_updating_blocks : KeptOrCompleted(f)]_vars

\* C32: from one iteration of the running loop to the next, every update
\* that was started stays in the pending set with the slot of its block
\* InFlight, unless the step consumed the completion of that very update
C32_InFlightNeverCancelled ==
    [][(phase = "running" /\ phase' = "running") =>
        \A f \in pending_updating_blocks : KeptOrCompleted(f)]_vars

\* the construction of block i has yielded None: the slot is None and no
\* create_block future is left for it
Skipped(i) ==
    /\ phase = "running"
    /\ ~blocks[i].some
    /\ i \notin pending_new_blocks

\* an operation that runs under the id of a skipped block is an operation of
\* another block
SkippedOnlyMistagged ==
    \A i \in BlockIds : Skipped(i) =>
        /\ \A f \in pending_updating_blocks : f.id = i => f.block # i
        /\ clicking.id # i

\* C33: the slot of a skipped block stays empty: its output entry is empty,
\* no update or click is pending or has just completed under its id, and
\* the dispatcher has not panicked on an empty slot
C33_SkipLeavesSlotEmpty ==
    /\ phase # "panicked"
    /\ \A i \in BlockIds : Skipped(i) =>
          /\ block_rendered[i] = None
          /\ \A f \in pending_updating_blocks : f.id # i
          /\ clicking.id # i
          /\ ~(last_event.kind \in {"updated", "click_done"} /\ last_event.id = i)

\* the slot has a click override and the click is a left click
OverrideApplies(id, button) ==
    blocks[id].some /\ blocks[id].on_click /\ button = Left

\* what a dropped event leaves as it is
DroppedFrame ==
    /\ phase' = "running"
    /\ clicking' = NoClick
    /\ UNCHANGED <<blocks, interval, schedule, pending_new_blocks,
                   pending_updating_blocks, block_rendered, printed,
                   error_widgets>>

\* C34: a request, or a click to which no override applies, for a slot that
\* is not Owned starts no update and no handler and leaves the slots, the
\* schedule, the pending sets and the rendered output as they are
C34_DroppedWithoutEffect ==
    [][\A id \in BlockIds :
          ~Owned(id) =>
            /\ UpdateRequest(id) => DroppedFrame
            /\ \A button \in Buttons :
                  (ClickEvent(id, button, TRUE) /\ ~OverrideApplies(id, button))
                      => DroppedFrame]_vars

\* a click has been dropped for a block whose update is in flight
C34_Witness ==
    /\ last_event.kind = "click"
    /\ last_event.res = "dropped"
    /\ InFlight(last_event.id)
    /\ \E f \in pending_updating_blocks : f.id = last_event.id

\* the timer branch has just run with the schedule left empty, and the
\* sleep of the next select is over as soon as it starts
TimerSpins ==
    /\ Selecting
    /\ last_event.kind = "timer"
    /\ schedule = <<>>
    /\ ttnu = 0

\* C35: while the schedule is empty the loop selects with a wait that is
\* not zero, so the timer branch does not fire again at once with no task
\* due
C35_NoZeroWaitOnEmpty ==
    /\ (Selecting /\ schedule = <<>>) => ttnu > 0
    /\ ~TimerSpins

\* the loop is in its very first select
FirstSelect == phase = "running" /\ last_event = Event("start", None, "ok")

\* in the first select the schedule holds one task per configured id, in
\* the order of the ids, each of them due
StartupTasksDue ==
    FirstSelect =>
        /\ Len(schedule) = NumBlocks
        /\ \A k \in 1 .. NumBlocks : schedule[k] = Task(k - 1, now)

\* C36: at startup the schedule holds one due task per configured id and
\* the sleep of the first select is over at once
C36_StartupTimerImmediate ==
    /\ StartupTasksDue
    /\ FirstSelect => ttnu = 0

\* the tasks of every id other than id are the same, in the same order
OthersUnchanged(id) ==
    \A j \in BlockIds \ {id} : TasksFor(schedule', j) = TasksFor(schedule, j)

\* C37: for the scheduler on its own, pop(id) and push(id, when) leave the
\* tasks of every other id as they are, ids and instants, and
\* time_to_next_update() leaves the whole schedule as it is
C37_SchedulerFrame ==
    [][/\ \A id \in BlockIds : SchedPop(id) => OthersUnchanged(id)
       /\ \A id \in BlockIds, when \in PushTimes :
             SchedPush(id, when) => OthersUnchanged(id)
       /\ SchedTimeToNextUpdate => schedule' = schedule]_vars

\* a push has been made into a schedule that holds a due task of another id
C37_Witness ==
    /\ last_event.kind = "push"
    /\ \E k \in 1 .. Len(schedule) :
          /\ schedule[k].id # last_event.id
          /\ schedule[k].update_time <= now

\* temp lies between min_temp and max_temp
TempInRange ==
    hueshift.min_temp <= hueshift.temp /\ hueshift.temp <= hueshift.max_temp

\* a construction that does not panic has clamped max_temp, and a wheel click
\* at a temp in range whose sum fits a u16 leaves temp in range, provided
\* min_temp <= max_temp
WheelWithoutOverflow ==
    /\ [](hueshift.st = "ready" =>
            LowestTemp <= hueshift.max_temp /\ hueshift.max_temp <= HighestTemp)
    /\ [][((HueshiftWheelUp \/ HueshiftWheelDown)
            /\ TempInRange
            /\ hueshift.min_temp <= hueshift.max_temp
            /\ hueshift.temp + hueshift.step < U16) => TempInRange']_vars

\* C38: the construction of a hueshift block does not panic and leaves
\* 1000 <= min_temp <= max_temp <= 10000; after a wheel-up or a wheel-down
\* click temp lies in [min_temp, max_temp], and temp + step has not
\* overflowed
C38_TempBounds ==
    /\ hueshift.st # "panicked"
    /\ hueshift.st = "ready" =>
          /\ LowestTemp <= hueshift.min_temp
          /\ hueshift.min_temp <= hueshift.max_temp
          /\ hueshift.max_temp <= HighestTemp
          /\ hueshift.button \in {"wheel_up", "wheel_down"} => TempInRange

====
